---- MODULE Spec2Model ----
(***************************************************************************)
(* Tournament-draft persistence of the Direktor web client.                *)
(*                                                                         *)
(* The hook useTournamentDrafts (src/src/hooks/useTournamentDrafts.ts) is  *)
(* modelled step by step: every await is a separate step, so several calls *)
(* of the hook can be in flight at once and the remote table answers them  *)
(* in any order and may fail each request.  The Autosave Scheduler, which  *)
(* the components only consume (isSaving, lastSaved), is modelled from the *)
(* specification text and drives saveDraft.                                *)
(***************************************************************************)
EXTENDS Integers, Sequences, FiniteSets, TLC

\* ------------------------------------------------------------- bounds
MaxOps    == 2      \* user actions that write (each one moves the clock on)
MaxCalls  == 2      \* calls of the hook that can be in flight together
MaxLen    == 2      \* longest text typed into the rename field

\* up to two drafts exist when the hook mounts; every create takes the next id
DraftIds == 1..(MaxOps + 2)
Slots    == 1..MaxCalls

NoUser == "none"
NoId   == 0         \* draftId undefined / a null result
NoData == 0

VARIABLES
    remote,         \* the table tournament_drafts: id -> row
    nextId,         \* next id the table generates
    now,            \* wall clock (new Date()); payloads are numbered by it
    user,           \* supabase.auth.getUser()
    drafts,         \* useState: drafts
    isLoading,      \* useState: isLoading
    error,          \* useState: error
    audit,          \* events handed to logAction: <<action, draft_id>> -> how many
    calls,          \* in-flight calls of the hook, one record per slot
    done,           \* the call that returned last, with its result
    pendingPayload, \* scheduler: payload waiting for the quiet window, per draft
    inFlight,       \* scheduler: a save of the draft is running
    queued,         \* scheduler: payloads to save once the running save resolves (FIFO)
    dropped,        \* history: payloads a later notifyChange replaced in the window
    cache,          \* Local Draft Cache: the set of local draft records
    pendingDeletion,\* ids deleted locally whose remote delete has not succeeded
    syncPc,         \* Sync Engine: "idle", or "run" while a reconciliation cycle runs
    tried,          \* remote calls of the running cycle that failed
    clean,          \* no remote call of the running cycle has failed
    isOnline,       \* Connectivity Monitor
    lastCache,      \* history: the cache when the last cycle ended
    lastRun,        \* history: how the last cycle went ("clean", "failed", "nopull"),
                    \*          "none" before the first and after a change
    quiet,          \* history: no local edit, remote change or delete since then
    repeated,       \* history: the last cycle repeated one with nothing in between
    joined,         \* a reconciliation request waits for the cycle that is running
    draftName,      \* the name stored with each draft
    renameUi,       \* DraftsList: renamingDraftId, newDraftName, error, isRenaming
                    \*             and the onRename call that is awaited
    isDeleting,     \* DraftsList / DraftRecoveryDialog: the draft armed for deletion
    timers,         \* the setTimeout callbacks of the armings that have not run yet
    deleteUi,       \* the error shown and the onDelete calls that are awaited
    deleteLog,      \* history: clicks, armings and onDelete calls so far
    loadSeq,        \* history: how many loadDrafts calls were issued; 0 where the
                    \*          order of the loads is not recorded
    shown,          \* history: which of them (in order of issue) filled drafts last
    logger          \* the audit logger delivers the events it is handed ("up") or
                    \* fails on them ("down"); audit counts the events handed over

vars == <<remote, nextId, now, user, drafts, isLoading, error, audit, calls, done,
          pendingPayload, inFlight, queued, dropped,
          cache, pendingDeletion, syncPc, tried, clean, isOnline,
          lastCache, lastRun, quiet, repeated, joined, draftName, renameUi, logger,
          loadSeq, shown, isDeleting, timers, deleteUi, deleteLog>>

hookVars  == <<drafts, isLoading, error>>
schedVars == <<pendingPayload, inFlight, queued, dropped>>
delVars   == <<isDeleting, timers, deleteUi, deleteLog>>
uiVars    == <<draftName, renameUi, logger, delVars>>
loadVars  == <<loadSeq, shown>>
\* what the hook and the scheduler never touch
syncVars  == <<cache, pendingDeletion, syncPc, tried, clean, isOnline,
               lastCache, lastRun, quiet, repeated, joined, uiVars>>
\* everything the hook and the scheduler own, but the clock and the remote table
clientVars == <<user, drafts, isLoading, error, audit, calls, done,
                pendingPayload, inFlight, queued, dropped, uiVars, loadVars>>

\* ------------------------------------------------------------- data
AuditActions == {"tournament_draft_created", "tournament_draft_updated",
                 "tournament_draft_completed", "tournament_draft_deleted"}

Idle == [op |-> "idle", pc |-> "idle", id |-> NoId, data |-> NoData, stamp |-> 0,
         uid |-> NoUser, src |-> "ui", ok |-> FALSE, snap |-> <<>>, imm |-> FALSE,
         seq |-> 0]

NoDone == [op |-> "none", id |-> NoId, data |-> NoData, ret |-> NoId, row |-> <<>>]

Row(u, p, t, s) == [user_id |-> u, data |-> p, last_updated |-> t, status |-> s]

\* TournamentDraft as the client receives it
TournamentDraft(d) == [id |-> d, data |-> remote[d].data,
                       last_updated |-> remote[d].last_updated,
                       status |-> remote[d].status]

Active == {c \in Slots : calls[c].op # "idle"}
HasFree == Active # Slots
FreeSlot == CHOOSE c \in Slots : calls[c].op = "idle" /\ \A b \in Slots : calls[b].op = "idle" => c <= b

logAction(action, draftId) == audit' = [audit EXCEPT ![<<action, draftId>>] = @ + 1]

\* a hook that awaits logAction inside its try: a failure to log becomes the
\* failure of the operation
AfterLogAwaited(ret) == IF logger = "down" THEN NoId ELSE ret

\* what the operation goes on with after the logAction statement: the call is
\* not awaited and its result is not used
AfterLog(ret) == ret

\* ------------------------------------------------------------- call plumbing
\* a new call takes slot c; a getDraft already in flight is no longer "immediately
\* after" the call that preceded it
Start(c, rec) ==
    calls' = [b \in Slots |-> IF b = c THEN rec ELSE [calls[b] EXCEPT !.imm = FALSE]]

\* the promise of call c resolves with retv (and rowv for getDraft).  A save the
\* scheduler issued hands control back to the scheduler: the next queued payload
\* of that draft is saved at once, otherwise the draft is no longer in flight.
Finish(c, retv, rowv) ==
    LET k == calls[c] IN
    /\ done' = [op |-> k.op, id |-> k.id, data |-> k.data, ret |-> retv, row |-> rowv]
    /\ IF k.src = "sched"
       THEN IF queued[k.id] # <<>>
            THEN /\ Start(c, [Idle EXCEPT !.op = "saveDraft", !.pc = "getUser",
                                          !.id = k.id, !.data = Head(queued[k.id]),
                                          !.src = "sched"])
                 /\ queued' = [queued EXCEPT ![k.id] = Tail(@)]
                 /\ UNCHANGED inFlight
            ELSE /\ calls' = [calls EXCEPT ![c] = Idle]
                 /\ inFlight' = [inFlight EXCEPT ![k.id] = FALSE]
                 /\ UNCHANGED queued
       ELSE /\ calls' = [calls EXCEPT ![c] = Idle]
            /\ UNCHANGED <<inFlight, queued>>
    /\ UNCHANGED <<pendingPayload, dropped>>

\* the select without its order clause: the rows of one user in any order
SelectDraftsUnordered(u) ==
    LET S == {d \in DOMAIN remote : remote[d].user_id = u}
        n == Cardinality(S)
    IN {[i \in 1..n |-> TournamentDraft(f[i])] :
            f \in {g \in [1..n -> S] : \A i, j \in 1..n : i # j => g[i] # g[j]}}

\* .order('last_updated', { ascending: false }) over the rows of one user: every
\* order of the rows that is descending in last_updated (ties in any order)
SelectDrafts(u) ==
    LET S == {d \in DOMAIN remote : remote[d].user_id = u}
        n == Cardinality(S)
    IN {[i \in 1..n |-> TournamentDraft(f[i])] :
            f \in {g \in [1..n -> S] :
                     /\ \A i, j \in 1..n : i # j => g[i] # g[j]
                     /\ \A i, j \in 1..n : i < j =>
                            remote[g[i]].last_updated >= remote[g[j]].last_updated}}

\* ------------------------------------------------------------- loadDrafts
\* the place of the next load in the order of issue
NextSeq == IF loadSeq = 0 THEN 0 ELSE loadSeq + 1

\* lines 21-22, run by the caller up to the first await
EnterLoadDrafts ==
    /\ isLoading' = TRUE
    /\ error' = "none"
    /\ loadSeq' = NextSeq

CallLoadDrafts ==
    /\ HasFree
    /\ now < MaxOps
    /\ now' = now + 1
    /\ Start(FreeSlot, [Idle EXCEPT !.op = "loadDrafts", !.pc = "loadGetUser",
                                    !.seq = NextSeq])
    /\ EnterLoadDrafts
    /\ UNCHANGED <<remote, nextId, user, syncVars, drafts, shown, audit, done, schedVars>>

\* loadDrafts returned inside call c: the hook call it belongs to goes on
LeaveLoadDrafts(c) ==
    IF calls[c].op = "loadDrafts" THEN Finish(c, NoId, <<>>) ELSE Finish(c, 1, <<>>)

LoadDraftsGetUser(c) ==
    /\ calls[c].pc = "loadGetUser"
    /\ IF user = NoUser
       THEN /\ error' = "User not authenticated"
            /\ isLoading' = FALSE
            /\ LeaveLoadDrafts(c)
       ELSE /\ calls' = [calls EXCEPT ![c].pc = "loadSelect", ![c].uid = user]
            /\ UNCHANGED <<error, isLoading, done, schedVars>>
    /\ UNCHANGED <<remote, nextId, now, user, syncVars, loadVars, drafts, audit>>

\* the table answers the select, or the request fails
LoadDraftsSelect(c) ==
    /\ calls[c].pc = "loadSelect"
    /\ \/ \E s \in SelectDrafts(calls[c].uid) :
            calls' = [calls EXCEPT ![c].pc = "loadResponse", ![c].ok = TRUE, ![c].snap = s]
       \/ calls' = [calls EXCEPT ![c].pc = "loadResponse", ![c].ok = FALSE]
    /\ UNCHANGED <<remote, nextId, now, user, syncVars, loadVars, hookVars, audit, done, schedVars>>

\* a load that empties the list when the request failed
LoadDraftsResponseClears(c) ==
    /\ calls[c].pc = "loadResponse"
    /\ IF calls[c].ok
       THEN /\ drafts' = calls[c].snap
            /\ shown' = calls[c].seq
            /\ UNCHANGED error
       ELSE /\ error' = "Failed to load drafts"
            /\ drafts' = <<>>
            /\ UNCHANGED shown
    /\ isLoading' = FALSE
    /\ LeaveLoadDrafts(c)
    /\ UNCHANGED <<remote, nextId, now, user, syncVars, audit, loadSeq>>

\* lines 35-42: the response reaches the client
LoadDraftsResponse(c) ==
    /\ calls[c].pc = "loadResponse"
    /\ IF calls[c].ok
       THEN /\ drafts' = calls[c].snap
            /\ shown' = calls[c].seq
            /\ UNCHANGED error
       ELSE /\ error' = "Failed to load drafts"
            /\ UNCHANGED <<drafts, shown>>
    /\ isLoading' = FALSE
    /\ LeaveLoadDrafts(c)
    /\ UNCHANGED <<remote, nextId, now, user, syncVars, audit, loadSeq>>

\* ------------------------------------------------------------- saveDraft
\* saveDraft(draftData, draftId) up to its first await; draftId = NoId is a create
saveDraft(c, draftData, draftId, from) ==
    Start(c, [Idle EXCEPT !.op = "saveDraft", !.pc = "getUser", !.id = draftId,
                          !.data = draftData, !.src = from])

\* saveDraft as it would be with the await on the request missing: the promise
\* resolves (the scheduler is told so) while the request is still on its way
SaveDraftGetUserNoAwait(c) ==
    LET k == calls[c] IN
    /\ k.op = "saveDraft" /\ k.pc = "getUser"
    /\ IF user = NoUser
       THEN Finish(c, NoId, <<>>)
       ELSE /\ calls' = [calls EXCEPT ![c].pc = IF k.id # NoId THEN "update" ELSE "insert",
                                      ![c].uid = user, ![c].stamp = now, ![c].src = "ui"]
            /\ inFlight' = IF k.src = "sched" THEN [inFlight EXCEPT ![k.id] = FALSE]
                            ELSE inFlight
            /\ UNCHANGED <<done, pendingPayload, queued, dropped>>
    /\ UNCHANGED <<remote, nextId, now, user, syncVars, loadVars, hookVars, audit>>

\* lines 51-67 and 82-90: getUser resolved, the request is built and sent
SaveDraftGetUser(c) ==
    /\ calls[c].op = "saveDraft" /\ calls[c].pc = "getUser"
    /\ IF user = NoUser
       THEN Finish(c, NoId, <<>>)
       ELSE /\ calls' = [calls EXCEPT ![c].pc = IF calls[c].id # NoId THEN "update" ELSE "insert",
                                      ![c].uid = user, ![c].stamp = now]
            /\ UNCHANGED <<done, schedVars>>
    /\ UNCHANGED <<remote, nextId, now, user, syncVars, loadVars, hookVars, audit>>

\* an update that also writes status: 'draft', as the insert does
UpdateDraftRowResetsStatus(k) ==
    [remote EXCEPT ![k.id] = [@ EXCEPT !.data = k.data, !.last_updated = k.stamp,
                                       !.status = "draft"]]

\* .update({data, last_updated}).eq('id').eq('user_id').select().single()
UpdateDraftRow(k) ==
    [remote EXCEPT ![k.id] = [@ EXCEPT !.data = k.data, !.last_updated = k.stamp]]

\* an update sent as delete and insert: when it fails the row is gone
SaveDraftUpdateReplaces(c) ==
    LET k == calls[c] IN
    /\ k.op = "saveDraft" /\ k.pc = "update"
    /\ \/ /\ k.id \in DOMAIN remote /\ remote[k.id].user_id = k.uid
          /\ remote' = UpdateDraftRow(k)
          /\ logAction("tournament_draft_updated", k.id)
          /\ Finish(c, AfterLog(k.id), <<>>)
       \/ /\ remote' = [d \in DOMAIN remote \ {k.id} |-> remote[d]]
          /\ UNCHANGED audit
          /\ Finish(c, NoId, <<>>)
    /\ UNCHANGED <<nextId, now, user, syncVars, loadVars, hookVars>>

\* lines 58-79: the update is answered; no matching row is an error of .single()
SaveDraftUpdate(c) ==
    LET k == calls[c] IN
    /\ k.op = "saveDraft" /\ k.pc = "update"
    /\ \/ /\ k.id \in DOMAIN remote /\ remote[k.id].user_id = k.uid
          /\ remote' = UpdateDraftRow(k)
          /\ logAction("tournament_draft_updated", k.id)
          /\ Finish(c, AfterLog(k.id), <<>>)
       \/ /\ UNCHANGED <<remote, audit>>
          /\ Finish(c, NoId, <<>>)
    /\ UNCHANGED <<nextId, now, user, syncVars, loadVars, hookVars>>

\* lines 82-102: the insert is answered; the table sets id and last_updated
SaveDraftInsert(c) ==
    LET k == calls[c] IN
    /\ k.op = "saveDraft" /\ k.pc = "insert"
    /\ \/ /\ remote' = (nextId :> Row(k.uid, k.data, now, "draft")) @@ remote
          /\ nextId' = nextId + 1
          /\ logAction("tournament_draft_created", nextId)
          /\ Finish(c, AfterLog(nextId), <<>>)
       \/ /\ UNCHANGED <<remote, nextId, audit>>
          /\ Finish(c, NoId, <<>>)
    /\ UNCHANGED <<now, user, syncVars, loadVars, hookVars>>

\* the wizard saves a draft that has no id yet
CreateDraft ==
    /\ HasFree
    /\ now < MaxOps
    /\ now' = now + 1
    /\ saveDraft(FreeSlot, now + 1, NoId, "ui")
    /\ UNCHANGED <<remote, nextId, user, syncVars, loadVars, hookVars, audit, done, schedVars>>

\* a save of a draft that has an id, as the hook sees the scheduler issue it: one
\* at a time per draft
SaveExisting(d) ==
    /\ HasFree
    /\ now < MaxOps
    /\ ~ \E c \in Active : calls[c].op = "saveDraft" /\ calls[c].id = d
    /\ now' = now + 1
    /\ saveDraft(FreeSlot, now + 1, d, "ui")
    /\ UNCHANGED <<remote, nextId, user, syncVars, loadVars, hookVars, audit, done, schedVars>>

\* ------------------------------------------------------------- completeDraft
CallCompleteDraft(d) ==
    /\ HasFree
    /\ now < MaxOps
    /\ now' = now + 1
    /\ Start(FreeSlot, [Idle EXCEPT !.op = "completeDraft", !.pc = "update", !.id = d,
                                    !.stamp = now + 1])
    /\ UNCHANGED <<remote, nextId, user, syncVars, loadVars, hookVars, audit, done, schedVars>>

\* a completion that flips the status, so that a second one reopens the draft
CompleteDraftRowToggles(k) ==
    IF k.id \in DOMAIN remote
    THEN [remote EXCEPT ![k.id] = [@ EXCEPT !.status = IF @ = "completed" THEN "draft" ELSE "completed",
                                            !.last_updated = k.stamp]]
    ELSE remote

\* .update({status: 'completed', last_updated}).eq('id', draftId)
CompleteDraftRow(k) ==
    IF k.id \in DOMAIN remote
    THEN [remote EXCEPT ![k.id] = [@ EXCEPT !.status = "completed", !.last_updated = k.stamp]]
    ELSE remote

\* lines 112-135
CompleteDraftUpdate(c) ==
    LET k == calls[c] IN
    /\ k.op = "completeDraft" /\ k.pc = "update"
    /\ \/ /\ remote' = CompleteDraftRow(k)
          /\ logAction("tournament_draft_completed", k.id)
          /\ IF AfterLog(1) # NoId
             THEN /\ EnterLoadDrafts
                  /\ calls' = [calls EXCEPT ![c].pc = "loadGetUser", ![c].seq = NextSeq]
                  /\ UNCHANGED <<drafts, done, schedVars>>
             ELSE /\ Finish(c, NoId, <<>>)
                  /\ UNCHANGED <<hookVars, loadSeq>>
       \/ /\ UNCHANGED <<remote, audit, hookVars, loadSeq>>
          /\ Finish(c, NoId, <<>>)
    /\ UNCHANGED <<nextId, now, user, syncVars, shown>>

\* ------------------------------------------------------------- deleteDraft
CallDeleteDraft(d) ==
    /\ HasFree
    /\ now < MaxOps
    /\ now' = now + 1
    /\ Start(FreeSlot, [Idle EXCEPT !.op = "deleteDraft", !.pc = "delete", !.id = d])
    /\ UNCHANGED <<remote, nextId, user, syncVars, loadVars, hookVars, audit, done, schedVars>>

\* .delete().eq('id', draftId)
DeleteDraftRow(k) == [d \in DOMAIN remote \ {k.id} |-> remote[d]]

\* lines 140-160
DeleteDraftDelete(c) ==
    LET k == calls[c] IN
    /\ k.op = "deleteDraft" /\ k.pc = "delete"
    /\ \/ /\ remote' = DeleteDraftRow(k)
          /\ logAction("tournament_draft_deleted", k.id)
          /\ IF AfterLog(1) # NoId
             THEN /\ EnterLoadDrafts
                  /\ calls' = [calls EXCEPT ![c].pc = "loadGetUser", ![c].seq = NextSeq]
                  /\ UNCHANGED <<drafts, done, schedVars>>
             ELSE /\ Finish(c, NoId, <<>>)
                  /\ UNCHANGED <<hookVars, loadSeq>>
       \/ /\ UNCHANGED <<remote, audit, hookVars, loadSeq>>
          /\ Finish(c, NoId, <<>>)
    /\ UNCHANGED <<nextId, now, user, syncVars, shown>>

\* ------------------------------------------------------------- getDraft
\* imm: the call is made right after the call in done returned, nothing else running
CallGetDraft(d) ==
    /\ HasFree
    /\ Start(FreeSlot, [Idle EXCEPT !.op = "getDraft", !.pc = "select", !.id = d,
                          !.imm = (Active = {})])
    /\ now < MaxOps
    /\ now' = now + 1
    /\ UNCHANGED <<remote, nextId, user, syncVars, loadVars, hookVars, audit, done, schedVars>>

\* lines 165-176: .select('*').eq('id', draftId).single()
GetDraftSelect(c) ==
    LET k == calls[c] IN
    /\ k.op = "getDraft" /\ k.pc = "select"
    /\ \/ /\ k.id \in DOMAIN remote
          /\ Finish(c, k.id, <<TournamentDraft(k.id)>>)
       \/ Finish(c, NoId, <<>>)
    /\ UNCHANGED <<remote, nextId, now, user, syncVars, loadVars, hookVars, audit>>

\* ------------------------------------------------------------- Autosave Scheduler
\* a scheduler that keeps the first payload of a burst instead of the last
NotifyChangeKeepFirst(d) ==
    /\ now < MaxOps
    /\ now' = now + 1
    /\ pendingPayload' = [pendingPayload EXCEPT ![d] = IF @ = NoData THEN now + 1 ELSE @]
    /\ dropped' = IF pendingPayload[d] # NoData THEN dropped \cup {pendingPayload[d]}
                  ELSE dropped
    /\ UNCHANGED <<remote, nextId, user, syncVars, loadVars, hookVars, audit, calls, done, inFlight, queued>>

\* notifyChange(draftId, payload): the payload replaces the one waiting and the
\* quiet window starts again
NotifyChange(d) ==
    /\ now < MaxOps
    /\ now' = now + 1
    /\ pendingPayload' = [pendingPayload EXCEPT ![d] = now + 1]
    /\ dropped' = IF pendingPayload[d] # NoData THEN dropped \cup {pendingPayload[d]}
                  ELSE dropped
    /\ UNCHANGED <<remote, nextId, user, syncVars, loadVars, hookVars, audit, calls, done, inFlight, queued>>

\* the quiet window of draft d elapsed: save the waiting payload, or queue it
\* behind the save of d that is still running
DebounceFire(d) ==
    /\ pendingPayload[d] # NoData
    /\ pendingPayload' = [pendingPayload EXCEPT ![d] = NoData]
    /\ IF inFlight[d]
       THEN /\ queued' = [queued EXCEPT ![d] = Append(@, pendingPayload[d])]
            /\ UNCHANGED <<calls, inFlight>>
       ELSE /\ HasFree
            /\ saveDraft(FreeSlot, pendingPayload[d], d, "sched")
            /\ inFlight' = [inFlight EXCEPT ![d] = TRUE]
            /\ UNCHANGED queued
    /\ UNCHANGED <<remote, nextId, now, user, syncVars, loadVars, hookVars, audit, done, dropped>>

\* ------------------------------------------------------------- Sync Engine
\* Local Draft Cache, Sync Engine and the facade in front of them (spec 3, 4.1,
\* 4.4, 4.5).  The owner's other devices change the remote table as well.
NoTime == -1
Owner == "A"
CacheRec(i, p, t, st, rt) ==
    [id |-> i, payload |-> p, updatedAt |-> t, syncState |-> st, remoteAt |-> rt]

\* a local edit, a delete or a remote change: what is remembered of the last
\* cycle is of no use any more
Touched ==
    quiet' = FALSE /\ lastCache' = {} /\ lastRun' = "none" /\ repeated' = "no"

\* save with no id: a new local draft, not yet confirmed against the remote store
SaveLocalNew ==
    /\ now < MaxOps
    /\ now' = now + 1
    /\ cache' = cache \cup {CacheRec(NoId, now + 1, now + 1, "local-only", NoTime)}
    /\ Touched
    /\ UNCHANGED <<remote, nextId, clientVars, pendingDeletion, syncPc, tried, clean,
                   isOnline, joined>>

\* save of a draft the cache holds: payload and updatedAt change, the push is left
\* to the Sync Engine
SaveLocal(r) ==
    /\ now < MaxOps
    /\ now' = now + 1
    /\ cache' = (cache \ {r}) \cup
                  {[r EXCEPT !.payload = now + 1, !.updatedAt = now + 1,
                             !.syncState = IF @ = "synced" THEN "pending" ELSE @]}
    /\ Touched
    /\ UNCHANGED <<remote, nextId, clientVars, pendingDeletion, syncPc, tried, clean,
                   isOnline, joined>>

\* another device of the owner saves draft d to the remote store
RemoteChange(d) ==
    /\ now < MaxOps
    /\ now' = now + 1
    /\ remote' = [remote EXCEPT ![d] = [@ EXCEPT !.data = now + 1, !.last_updated = now + 1]]
    /\ Touched
    /\ UNCHANGED <<nextId, clientVars, cache, pendingDeletion, syncPc, tried, clean,
                   isOnline, joined>>

\* deleteDraft of the facade: the local copy goes at once; the remote delete is
\* tried, and the id is kept for the next reconciliation when it fails
DeleteLocal(r) ==
    /\ cache' = cache \ {r}
    /\ Touched
    /\ \/ /\ r.id # NoId /\ isOnline
          /\ remote' = [d \in DOMAIN remote \ {r.id} |-> remote[d]]
          /\ UNCHANGED pendingDeletion
       \/ /\ pendingDeletion' = IF r.id # NoId THEN pendingDeletion \cup {r.id}
                                ELSE pendingDeletion
          /\ UNCHANGED remote
    /\ UNCHANGED <<nextId, now, clientVars, syncPc, tried, clean,
                   isOnline, joined>>

\* Connectivity Monitor
GoOffline ==
    /\ isOnline
    /\ isOnline' = FALSE
    /\ UNCHANGED <<remote, nextId, now, clientVars, cache, pendingDeletion, syncPc, tried,
                   clean, lastCache, lastRun, quiet, repeated, joined>>

\* a request that starts a cycle whether or not one is running
ReconcileRestarts ==
    syncPc' = "run" /\ tried' = {} /\ clean' = TRUE /\ UNCHANGED joined

\* a reconciliation request: a cycle starts unless one is running; otherwise the
\* request waits for the running cycle
Reconcile ==
    IF syncPc = "idle"
    THEN syncPc' = "run" /\ tried' = {} /\ clean' = TRUE /\ UNCHANGED joined
    ELSE joined' = TRUE /\ UNCHANGED <<syncPc, tried, clean>>

\* the transition to online asks for a reconciliation
GoOnline ==
    /\ ~ isOnline
    /\ isOnline' = TRUE
    /\ Reconcile
    /\ UNCHANGED <<remote, nextId, now, clientVars, cache, pendingDeletion,
                   lastCache, lastRun, quiet, repeated>>

\* explicit "sync now", or the load of the Draft Lifecycle Manager
SyncNow ==
    /\ Reconcile
    /\ UNCHANGED <<remote, nextId, now, clientVars, cache, pendingDeletion, isOnline,
                   lastCache, lastRun, quiet, repeated>>

Pushable(r) == r.syncState \in {"local-only", "pending"}

\* a push that takes the id but leaves the draft waiting for a push
PushedStaysPending(r, i, t) == [r EXCEPT !.id = i]

\* the draft after a remote create or update that succeeded: synced, with the
\* id and the updatedAt the store returned
Pushed(r, i, t) == CacheRec(i, r.payload, t, "synced", t)

\* pushPending, one draft: remote create (no id yet) or remote update; on
\* success the draft is synced and takes the id and updatedAt the store returns,
\* on failure it is left as it is
PushOne(r) ==
    /\ syncPc = "run"
    /\ r \in cache /\ Pushable(r) /\ <<"push", r.payload>> \notin tried
    /\ \/ /\ isOnline
          /\ r.id = NoId
          /\ remote' = (nextId :> Row(Owner, r.payload, now, "draft")) @@ remote
          /\ nextId' = nextId + 1
          /\ cache' = (cache \ {r}) \cup {Pushed(r, nextId, now)}
          /\ UNCHANGED <<tried, clean>>
       \/ /\ isOnline
          /\ r.id \in DOMAIN remote
          /\ remote' = [remote EXCEPT ![r.id] = [@ EXCEPT !.data = r.payload, !.last_updated = now]]
          /\ cache' = (cache \ {r}) \cup {Pushed(r, r.id, now)}
          /\ UNCHANGED <<nextId, tried, clean>>
       \/ /\ tried' = tried \cup {<<"push", r.payload>>}
          /\ clean' = FALSE
          /\ UNCHANGED <<remote, nextId, cache>>
    /\ UNCHANGED <<now, clientVars, pendingDeletion, syncPc, isOnline,
                   lastCache, lastRun, quiet, repeated, joined>>

\* a remote delete that failed is tried again in the cycle
RetryDelete(d) ==
    /\ syncPc = "run"
    /\ d \in pendingDeletion /\ <<"delete", d>> \notin tried
    /\ \/ /\ isOnline
          /\ remote' = [e \in DOMAIN remote \ {d} |-> remote[e]]
          /\ pendingDeletion' = pendingDeletion \ {d}
          /\ UNCHANGED <<tried, clean>>
       \/ /\ tried' = tried \cup {<<"delete", d>>}
          /\ clean' = FALSE
          /\ UNCHANGED <<remote, pendingDeletion>>
    /\ UNCHANGED <<nextId, now, clientVars, cache, syncPc, isOnline,
                   lastCache, lastRun, quiet, repeated, joined>>

\* a cycle that does not wait for pushPending before it pulls
PushNotAwaited == TRUE

\* pushPending has run to completion: every pending draft and delete was tried
PushComplete ==
    /\ \A r \in cache : Pushable(r) => <<"push", r.payload>> \in tried
    /\ \A d \in pendingDeletion : <<"delete", d>> \in tried

\* a remote draft inserted by pullRemote with the wrong syncState
PulledInsertPending(d) ==
    CacheRec(d, remote[d].data, remote[d].last_updated, "pending", remote[d].last_updated)

\* a remote draft that the cache does not hold is inserted as synced
PulledInsert(d) ==
    CacheRec(d, remote[d].data, remote[d].last_updated, "synced", remote[d].last_updated)

\* the non-completed remote drafts of the owner, less those deleted locally
RemoteDrafts ==
    {d \in DOMAIN remote : /\ remote[d].user_id = Owner
                           /\ remote[d].status # "completed"
                           /\ d \notin pendingDeletion}

\* a pullRemote in which the remote copy wins over local edits as well
PulledLocalRemoteWins(r) ==
    IF r.id \notin RemoteDrafts \/ remote[r.id].last_updated = r.updatedAt THEN r
    ELSE PulledInsert(r.id)

\* pullRemote on one local draft: same updatedAt, nothing to do; otherwise the
\* remote copy wins over a synced draft, and a draft with local edits becomes a
\* conflict that shows both timestamps
PulledLocal(r) ==
    IF r.id \notin RemoteDrafts \/ remote[r.id].last_updated = r.updatedAt THEN r
    ELSE IF r.syncState = "synced" THEN PulledInsert(r.id)
    ELSE [r EXCEPT !.syncState = "conflict", !.remoteAt = remote[r.id].last_updated]

Pulled ==
    {PulledLocal(r) : r \in cache}
        \cup {PulledInsert(d) : d \in {e \in RemoteDrafts : \A r \in cache : r.id # e}}

\* pullRemote, after pushPending; the cycle ends with it
PullRemote ==
    /\ syncPc = "run"
    /\ PushComplete
    /\ \/ /\ isOnline
          /\ cache' = Pulled
          /\ lastRun' = IF clean THEN "clean" ELSE "failed"
       \/ /\ UNCHANGED cache
          /\ lastRun' = "nopull"
    /\ syncPc' = "idle"
    /\ tried' = {}
    /\ clean' = TRUE
    /\ lastCache' = cache'
    /\ quiet' = TRUE
    /\ repeated' = IF quiet THEN lastRun ELSE "no"
    /\ joined' = FALSE
    /\ UNCHANGED <<remote, nextId, now, clientVars, pendingDeletion, isOnline>>

\* ------------------------------------------------------------- rename
\* DraftsList (and DraftRecoveryDialog, which has the same handlers) in front of
\* renameDraft of the facade.  Text is a sequence of characters.
Chars == {" ", "a"}
Names == UNION {[1..n -> Chars] : n \in 0..MaxLen}
Untitled == <<"a">>               \* 'Untitled Tournament'
NoError == "null"
EmptyName == "Draft name cannot be empty"
RenameFailed == "Failed to rename draft"

NoRename == [renamingDraftId |-> NoId, newDraftName |-> <<>>, error |-> NoError,
             isRenaming |-> FALSE, pc |-> "idle", id |-> NoId, name |-> <<>>]

RECURSIVE trimStart(_)
trimStart(s) == IF s # <<>> /\ Head(s) = " " THEN trimStart(Tail(s)) ELSE s
RECURSIVE trimEnd(_)
trimEnd(s) == IF s # <<>> /\ s[Len(s)] = " " THEN trimEnd(SubSeq(s, 1, Len(s) - 1)) ELSE s

\* a check of the name as typed, without trimming it
trimNothing(s) == s

\* String.prototype.trim
trim(s) == trimEnd(trimStart(s))

renameFrame == <<nextId, user, drafts, isLoading, error, audit, calls, done, schedVars,
                 cache, pendingDeletion, syncPc, tried, clean, isOnline,
                 lastCache, lastRun, quiet, repeated, joined, logger, loadVars, delVars>>

\* lines 312-316
handleStartRename(d) ==
    /\ renameUi' = [renameUi EXCEPT !.renamingDraftId = d,
                                    !.newDraftName = IF draftName[d] # <<>> THEN draftName[d]
                                                     ELSE Untitled,
                                    !.error = NoError]
    /\ UNCHANGED <<remote, now, draftName, renameFrame>>

\* line 378: onChange of the input, shown while a draft is being renamed
setNewDraftName(n) ==
    /\ renameUi.renamingDraftId # NoId
    /\ renameUi' = [renameUi EXCEPT !.newDraftName = n]
    /\ UNCHANGED <<remote, now, draftName, renameFrame>>

\* lines 318-322
handleCancelRename ==
    /\ renameUi.renamingDraftId # NoId
    /\ renameUi' = [renameUi EXCEPT !.renamingDraftId = NoId, !.newDraftName = <<>>,
                                    !.error = NoError]
    /\ UNCHANGED <<remote, now, draftName, renameFrame>>

\* lines 324-334, up to the await; the button is disabled while isRenaming
handleSubmitRename(d) ==
    /\ renameUi.renamingDraftId = d /\ ~ renameUi.isRenaming
    /\ IF trim(renameUi.newDraftName) = <<>>
       THEN renameUi' = [renameUi EXCEPT !.error = EmptyName]
       ELSE renameUi' = [renameUi EXCEPT !.isRenaming = TRUE, !.error = NoError,
                                         !.pc = "await", !.id = d,
                                         !.name = trim(renameUi.newDraftName)]
    /\ UNCHANGED <<remote, now, draftName, renameFrame>>

\* renameDraft of the facade answers, lines 335-345: the name and updatedAt of
\* the draft are written and the field is closed, or the rename failed
onRename ==
    /\ renameUi.pc = "await"
    /\ \/ /\ now < MaxOps /\ renameUi.id \in DOMAIN remote
          /\ now' = now + 1
          /\ draftName' = [draftName EXCEPT ![renameUi.id] = renameUi.name]
          /\ remote' = [remote EXCEPT ![renameUi.id].last_updated = now + 1]
          /\ renameUi' = [renameUi EXCEPT !.renamingDraftId = NoId, !.newDraftName = <<>>,
                                          !.isRenaming = FALSE, !.pc = "idle"]
       \/ /\ renameUi' = [renameUi EXCEPT !.error = RenameFailed,
                                          !.isRenaming = FALSE, !.pc = "idle"]
          /\ UNCHANGED <<remote, now, draftName>>
    /\ UNCHANGED renameFrame

\* ------------------------------------------------------------- delete confirmation
\* handleDeleteDraft of DraftsList (unnamed/part_002, 349-366) and of
\* DraftRecoveryDialog (590-607): the same code
MaxClicks == 3
\* the delay of the auto-reset, in seconds
Delay == 3
DeleteFailed == "Failed to delete draft"
NoClicks == [clicks |-> 0, last |-> NoId, arms |-> 0, arming |-> 0,
             invoked |-> [d \in DraftIds |-> 0]]

deleteFrame == <<nextId, now, user, drafts, isLoading, error, audit, calls, done, schedVars,
                 cache, pendingDeletion, syncPc, tried, clean, isOnline,
                 lastCache, lastRun, quiet, repeated, joined,
                 draftName, renameUi, logger, loadVars>>

\* a list where a delete click confirms whatever draft is armed
ConfirmsAny(d) == isDeleting # NoId

\* line 350: isDeleting === draftId
Confirms(d) == isDeleting = d

\* lines 349-366, up to the await: the armed draft is disarmed and onDelete is
\* called; any other draft is armed and a timer of 3 seconds is started
handleDeleteDraft(d) ==
    /\ deleteLog.clicks < MaxClicks
    /\ IF Confirms(d)
       THEN /\ isDeleting' = NoId
            /\ deleteUi' = [deleteUi EXCEPT !.awaiting = Append(@, d)]
            /\ deleteLog' = [deleteLog EXCEPT !.clicks = @ + 1, !.last = d, !.arming = 0,
                                              !.invoked[d] = @ + 1]
            /\ UNCHANGED timers
       ELSE /\ isDeleting' = d
            /\ timers' = timers \cup {[arm |-> deleteLog.arms + 1, left |-> Delay]}
            /\ deleteLog' = [deleteLog EXCEPT !.clicks = @ + 1, !.last = d,
                                              !.arms = @ + 1, !.arming = deleteLog.arms + 1]
            /\ UNCHANGED deleteUi
    /\ UNCHANGED <<remote, deleteFrame>>

\* lines 361-363: the callback of a timer that is due runs; nothing ever clears a timer
TimerFires(t) ==
    /\ t \in timers /\ t.left = 0
    /\ isDeleting' = NoId
    /\ timers' = timers \ {t}
    /\ deleteLog' = [deleteLog EXCEPT !.arming = 0]
    /\ UNCHANGED <<remote, deleteUi, deleteFrame>>

\* a second passes; the timers that are due have run
Tick ==
    /\ timers # {}
    /\ \A t \in timers : t.left > 0
    /\ timers' = {[t EXCEPT !.left = @ - 1] : t \in timers}
    /\ UNCHANGED <<remote, isDeleting, deleteUi, deleteLog, deleteFrame>>

\* lines 353-358: the awaited onDelete answers: the draft is gone, or it is still
\* there, or the call threw and the error is shown
onDelete ==
    /\ deleteUi.awaiting # <<>>
    /\ LET d == Head(deleteUi.awaiting) IN
       \/ /\ remote' = [e \in DOMAIN remote \ {d} |-> remote[e]]
          /\ deleteUi' = [deleteUi EXCEPT !.awaiting = Tail(@)]
       \/ /\ deleteUi' = [deleteUi EXCEPT !.awaiting = Tail(@)]
          /\ UNCHANGED remote
       \/ /\ deleteUi' = [deleteUi EXCEPT !.awaiting = Tail(@), !.error = DeleteFailed]
          /\ UNCHANGED remote
    /\ UNCHANGED <<isDeleting, timers, deleteLog, deleteFrame>>

\* ------------------------------------------------------------- specification
\* the hook is mounted: the state of useState plus the load of the mount effect
\* (lines 14-16 and 45-47)
\* the state after the mount, with the rows the table holds at that time
InitFrom(table, seq) ==
    /\ remote = table
    /\ nextId = Cardinality(DOMAIN table) + 1
    /\ now = 0
    /\ user = "A"
    /\ drafts = <<>>
    /\ isLoading = TRUE
    /\ error = "none"
    /\ audit = [e \in AuditActions \X DraftIds |-> 0]
    /\ calls = [c \in Slots |-> IF c = 1 THEN [Idle EXCEPT !.op = "loadDrafts", !.pc = "loadGetUser",
                                                           !.seq = seq]
                                ELSE Idle]
    /\ done = NoDone
    /\ pendingPayload = [d \in DraftIds |-> NoData]
    /\ inFlight = [d \in DraftIds |-> FALSE]
    /\ queued = [d \in DraftIds |-> <<>>]
    /\ dropped = {}
    /\ cache = {}
    /\ pendingDeletion = {}
    /\ syncPc = "idle"
    /\ tried = {}
    /\ clean = TRUE
    /\ isOnline = TRUE
    /\ lastCache = {}
    /\ lastRun = "none"
    /\ quiet = FALSE
    /\ repeated = "no"
    /\ joined = FALSE
    /\ draftName = [d \in DraftIds |-> <<>>]
    /\ renameUi = NoRename
    /\ logger = "up"
    /\ loadSeq = seq
    /\ shown = 0
    /\ isDeleting = NoId
    /\ timers = {}
    /\ deleteUi = [error |-> NoError, awaiting |-> <<>>]
    /\ deleteLog = NoClicks

InitWith(table) == InitFrom(table, 0)

\* the user has one draft
Init == InitWith(1 :> Row("A", NoData, 0, "draft"))

\* the table holds a draft of another user as well
OwnerInit == InitWith((1 :> Row("A", NoData, 0, "draft")) @@ (2 :> Row("B", NoData, 0, "draft")))

Known == {d \in DraftIds : d < nextId}

\* the hook and its callers
Next ==
    \/ CallLoadDrafts
    \/ \E c \in Slots : LoadDraftsGetUser(c)
    \/ \E c \in Slots : LoadDraftsSelect(c)
    \/ \E c \in Slots : LoadDraftsResponse(c)
    \/ CreateDraft
    \/ \E d \in Known : SaveExisting(d)
    \/ \E c \in Slots : SaveDraftGetUser(c)
    \/ \E c \in Slots : SaveDraftUpdate(c)
    \/ \E c \in Slots : SaveDraftInsert(c)
    \/ \E d \in Known : CallCompleteDraft(d)
    \/ \E c \in Slots : CompleteDraftUpdate(c)
    \/ \E d \in Known : CallDeleteDraft(d)
    \/ \E c \in Slots : DeleteDraftDelete(c)
    \/ \E d \in Known : CallGetDraft(d)
    \/ \E c \in Slots : GetDraftSelect(c)

Spec == Init /\ [][Next]_vars

\* the hook with the scheduling the code has: once an answer has arrived the
\* continuation of the await runs; nothing in the code (no timer, no abort) makes
\* a request end that the remote side does not answer
LoadFair == Spec /\ \A c \in Slots : WF_vars(LoadDraftsResponse(c))

\* the session ends while no call is in flight: getUser gives no user from now on
SignOut ==
    /\ user # NoUser /\ Active = {}
    /\ user' = NoUser
    /\ UNCHANGED <<remote, nextId, now, syncVars, loadVars, hookVars, audit, calls, done, schedVars>>

\* the hook, with a session that can end
AuthNext == Next \/ SignOut

AuthSpec == Init /\ [][AuthNext]_vars

\* the audit logger starts or stops failing
LoggerTurns ==
    /\ logger' = IF logger = "up" THEN "down" ELSE "up"
    /\ UNCHANGED <<remote, nextId, now, user, hookVars, audit, calls, done, schedVars,
                   cache, pendingDeletion, syncPc, tried, clean, isOnline,
                   lastCache, lastRun, quiet, repeated, joined, draftName, renameUi,
                   loadVars, delVars>>

\* the hook with an audit logger that can fail
LogNext == Next \/ LoggerTurns

LogSpec == Init /\ [][LogNext]_vars

\* the hook on a table that two users share
OwnerSpec == OwnerInit /\ [][Next]_vars

\* the Autosave Scheduler in front of saveDraft
SchedNext ==
    \/ CreateDraft
    \/ \E d \in Known : NotifyChange(d)
    \/ \E d \in Known : DebounceFire(d)
    \/ \E c \in Slots : LoadDraftsGetUser(c)
    \/ \E c \in Slots : LoadDraftsSelect(c)
    \/ \E c \in Slots : LoadDraftsResponse(c)
    \/ \E c \in Slots : SaveDraftGetUser(c)
    \/ \E c \in Slots : SaveDraftUpdate(c)
    \/ \E c \in Slots : SaveDraftInsert(c)

SchedSpec == Init /\ [][SchedNext]_vars

\* Local Draft Cache and Sync Engine against the remote store
SyncNext ==
    \/ SaveLocalNew
    \/ \E r \in cache : SaveLocal(r)
    \/ \E d \in DOMAIN remote : RemoteChange(d)
    \/ \E r \in cache : DeleteLocal(r)
    \/ GoOffline
    \/ GoOnline
    \/ SyncNow
    \/ \E r \in cache : PushOne(r)
    \/ \E d \in pendingDeletion : RetryDelete(d)
    \/ PullRemote

SyncSpec == Init /\ [][SyncNext]_vars

\* the rename field of the drafts list
RenameNext ==
    \/ \E d \in DOMAIN remote : handleStartRename(d)
    \/ \E n \in Names : setNewDraftName(n)
    \/ handleCancelRename
    \/ \E d \in DOMAIN remote : handleSubmitRename(d)
    \/ onRename

RenameSpec == Init /\ [][RenameNext]_vars

\* the hook, with the order in which its loads are issued recorded from the mount on
LoadOrderInit == InitFrom(1 :> Row("A", NoData, 0, "draft"), 1)

LoadOrderSpec == LoadOrderInit /\ [][Next]_vars

\* the list shows two drafts of the user
DeleteUiInit == InitWith((1 :> Row("A", NoData, 0, "draft")) @@ (2 :> Row("A", NoData, 0, "draft")))

\* the delete buttons of the drafts list
DeleteUiNext ==
    \/ \E d \in DOMAIN remote : handleDeleteDraft(d)
    \/ \E t \in timers : TimerFires(t)
    \/ Tick
    \/ onDelete

DeleteUiSpec == DeleteUiInit /\ [][DeleteUiNext]_vars

\* fairness: a request that is on its way is answered or fails, a promise that can
\* resolve does, and a quiet window that has started elapses
HookStep ==
    \/ \E c \in Slots : LoadDraftsGetUser(c)
    \/ \E c \in Slots : LoadDraftsSelect(c)
    \/ \E c \in Slots : LoadDraftsResponse(c)
    \/ \E c \in Slots : SaveDraftGetUser(c)
    \/ \E c \in Slots : SaveDraftUpdate(c)
    \/ \E c \in Slots : SaveDraftInsert(c)

SchedFair == SchedSpec /\ WF_vars(HookStep) /\ \A d \in DraftIds : WF_vars(DebounceFire(d))

\* ------------------------------------------------------------- claims
SaveCalls(d) == {c \in Active : calls[c].op = "saveDraft" /\ calls[c].id = d}
Range(q) == {q[i] : i \in DOMAIN q}
\* payloads of draft d that a save carries or that wait in the queue
SavesOf(d) == {calls[c].data : c \in SaveCalls(d)} \cup Range(queued[d])

\* C1: a burst of notifyChange calls on one draft inside one quiet window gives
\* exactly one save, carrying the last payload of the burst; a payload the burst
\* replaced is never saved, queued or committed.
C1_NoDroppedPayload ==
    \A p \in dropped :
        /\ \A c \in Active : calls[c].op = "saveDraft" => calls[c].data # p
        /\ \A d \in DraftIds : p \notin Range(queued[d])
        /\ \A d \in DOMAIN remote : remote[d].data # p
C1_OneSavePerWindow ==
    \A d \in DraftIds :
        IF pendingPayload[d] # NoData /\ pendingPayload'[d] = NoData
        THEN /\ pendingPayload[d] \notin SavesOf(d)
             /\ SavesOf(d)' = SavesOf(d) \cup {pendingPayload[d]}
        ELSE SavesOf(d)' \subseteq SavesOf(d)
C1_BurstCollapses == []C1_NoDroppedPayload /\ [][C1_OneSavePerWindow]_vars
C1_Witness ==
    \E c \in Active : /\ calls[c].op = "saveDraft" /\ calls[c].src = "sched"
                      /\ dropped # {}
                      /\ \A p \in dropped : p < calls[c].data

\* C2: the payloads committed for a draft follow the order in which they were
\* submitted: a commit never replaces a newer payload by an older one.
C2_CommitsInSubmitOrder ==
    [][\A d \in DOMAIN remote \cap DOMAIN remote' : remote'[d].data >= remote[d].data]_vars
C2_Witness ==
    \E d \in DOMAIN remote : audit[<<"tournament_draft_updated", d>>] >= 2

\* C3: at most one save per draft is in flight; a payload whose window closes
\* during a running save waits in the queue, is issued in the step in which the
\* running save resolves, and is issued eventually.
C3_OneInFlight ==
    \A d \in DraftIds :
        /\ Cardinality(SaveCalls(d)) <= 1
        /\ queued[d] # <<>> => inFlight[d] /\ SaveCalls(d) # {}
C3_QueuedIssuedOnResolve ==
    \A d \in DraftIds :
        (queued[d] # <<>> /\ \E c \in SaveCalls(d) : calls'[c] # calls[c] /\ calls[c].pc # "getUser")
            => /\ \E c \in SaveCalls(d)' : calls'[c].data = Head(queued[d])
               /\ queued'[d] = Tail(queued[d])
ListedIds(l) == {l[i].id : i \in DOMAIN l}
\* call c returns in this step
Returns(c) == calls[c].op # "idle" /\ calls'[c].op = "idle"
\* the draft the save in done was about
SavedId == IF done.id # NoId THEN done.id ELSE done.ret

\* C4: a save of payload P that is followed at once by loading the same draft
\* gives P, whether or not the remote store answered the save and the load.
C4_SaveThenLoad ==
    [][\A c \in Slots :
          (/\ calls[c].op = "getDraft" /\ calls[c].imm /\ Returns(c)
           /\ done.op = "saveDraft" /\ SavedId = calls[c].id)
          => done'.row # <<>> /\ done'.row[1].data = done.data]_vars

\* C5: once deleteDraft(id) is called the draft is not in drafts, while the call
\* runs and after it returned, whether the remote delete succeeded or failed.
C5_DeletedAbsentAtOnce ==
    /\ \A c \in Active : calls[c].op = "deleteDraft" => calls[c].id \notin ListedIds(drafts)
    /\ done.op = "deleteDraft" => done.id \notin ListedIds(drafts)

\* C6: after a remote delete that failed, a reconciliation (the reload of the
\* list) does not bring the deleted draft back into the visible list.
C6_NoResurrection ==
    [][\A c \in Slots :
          (/\ calls[c].pc = "loadResponse" /\ calls[c].ok /\ Returns(c)
           /\ done.op = "deleteDraft" /\ done.ret = NoId)
          => done.id \notin ListedIds(drafts')]_vars

\* C7: no draft whose status is completed is in the list the hook exposes.
C7_NoCompletedListed ==
    \A i \in DOMAIN drafts : drafts[i].status # "completed"

\* completeDraft's update reaches a row that is completed already
SecondCompletion(c) ==
    /\ calls[c].op = "completeDraft" /\ calls[c].pc = "update"
    /\ calls'[c].pc = "loadGetUser"
    /\ calls[c].id \in DOMAIN remote /\ remote[calls[c].id].status = "completed"

\* C8 as claimed: completing a completed draft again leaves the draft as it was.
C8_SecondCompleteChangesNothing ==
    [][\A c \in Slots : SecondCompletion(c) => remote'[calls[c].id] = remote[calls[c].id]]_vars

\* C8 amended: completing a completed draft again raises no error (the call
\* returns true once its update was answered), leaves status and payload as they
\* were and only stamps last_updated anew, and logs an event equal to the first.
C8_SecondCompleteKeepsContent ==
    [][\A c \in Slots :
          /\ SecondCompletion(c) =>
                /\ remote' = [remote EXCEPT ![calls[c].id].last_updated = calls[c].stamp]
                /\ audit' = [audit EXCEPT ![<<"tournament_draft_completed", calls[c].id>>] = @ + 1]
          /\ (calls[c].op = "completeDraft" /\ calls[c].pc # "update" /\ Returns(c))
                => done'.ret = 1]_vars
C8_Witness ==
    \E d \in DOMAIN remote :
        /\ remote[d].status = "completed"
        /\ audit[<<"tournament_draft_completed", d>>] = 2
        /\ done.op = "completeDraft" /\ done.id = d /\ done.ret = 1

\* C9: a row whose status is completed never gets status draft again, whatever
\* saves, completions and reloads follow (it can only be deleted).
C9_CompletedIsTerminal ==
    [][\A d \in DOMAIN remote :
          remote[d].status = "completed" =>
              (d \notin DOMAIN remote' \/ remote'[d].status = "completed")]_vars
C9_Witness ==
    \E d \in DOMAIN remote :
        /\ remote[d].status = "completed"
        /\ done.op = "saveDraft" /\ done.id = d /\ done.ret = d

\* a reconciliation cycle ends in this step
CycleEnds == syncPc = "run" /\ syncPc' = "idle"

Diverged(r) ==
    /\ r \in cache /\ r.syncState = "pending"
    /\ r.id \in RemoteDrafts
    /\ remote[r.id].last_updated > r.updatedAt
    /\ remote[r.id].data # r.payload

\* the draft as a conflict that shows both timestamps
AsConflict(r) == [r EXCEPT !.syncState = "conflict", !.remoteAt = remote[r.id].last_updated]

PullAnswered == PullRemote /\ lastRun' # "nopull"

\* the remote copy of draft d as a synced local draft
RemoteCopy(d) ==
    [id |-> d, payload |-> remote[d].data, updatedAt |-> remote[d].last_updated,
     syncState |-> "synced", remoteAt |-> remote[d].last_updated]

NotCompletedOfOwner(d) ==
    d \in DOMAIN remote /\ remote[d].user_id = Owner /\ remote[d].status # "completed"

\* a synced local draft whose remote copy has another updatedAt is replaced by
\* the remote copy
SyncedOverwritten ==
    \A r \in cache :
        (/\ r.syncState = "synced" /\ NotCompletedOfOwner(r.id)
         /\ r.id \notin pendingDeletion
         /\ remote[r.id].last_updated # r.updatedAt)
            => RemoteCopy(r.id) \in cache' /\ r \notin cache'

C13_PushBeforePull ==
    [][PullRemote =>
          \A r \in cache :
              Pushable(r) =>
                  /\ <<"push", r.payload>> \in tried
                  /\ \E q \in cache' : /\ q.id = r.id /\ q.payload = r.payload
                                       /\ q.updatedAt = r.updatedAt]_vars
C13_Witness ==
    /\ syncPc = "idle" /\ lastRun = "failed" /\ pendingDeletion = {}
    /\ \E r \in cache : r.syncState = "conflict" /\ r.payload # remote[r.id].data
    /\ \E r \in cache : r.syncState = "local-only"

\* C14: a cycle that runs is never started anew (what it has tried and what has
\* failed is kept until it ends), a request that arrives while it runs changes
\* nothing but waits, and the waiting request resolves in the step that ends the
\* cycle.
C14_OneCycleAtATime ==
    /\ [](joined => syncPc = "run")
    /\ [][/\ (syncPc = "run" /\ syncPc' = "run") => (tried \subseteq tried' /\ (clean' => clean))
          /\ (~ joined /\ joined') => UNCHANGED <<syncPc, tried, clean, cache, remote, pendingDeletion>>
          /\ (joined /\ ~ joined') => CycleEnds]_vars
C14_Witness ==
    joined /\ syncPc = "run" /\ tried # {} /\ ~ clean

\* C15: a push that succeeds leaves the draft synced with the id and updatedAt
\* of the remote row that now holds its payload; a push that fails leaves the
\* draft, the cache and the remote table as they were and the cycle goes on.
C15_PushOutcome ==
    [][\A r \in cache :
          PushOne(r) =>
              IF tried' # tried
              THEN /\ cache' = cache /\ remote' = remote
                   /\ syncPc' = "run" /\ ~ clean' /\ error' = error
              ELSE \E q \in cache' :
                      /\ cache' = (cache \ {r}) \cup {q}
                      /\ q.syncState = "synced" /\ q.payload = r.payload
                      /\ q.id \in DOMAIN remote' /\ (r.id # NoId => q.id = r.id)
                      /\ remote'[q.id].data = r.payload
                      /\ q.updatedAt = remote'[q.id].last_updated]_vars
C15_Witness ==
    /\ syncPc = "run"
    /\ \E r \in cache : Pushable(r) /\ <<"push", r.payload>> \in tried
    /\ \E q \in cache : q.syncState = "synced" /\ q.id > 1 /\ q.payload # NoData

\* C16: a save made while the remote store cannot be reached succeeds all the
\* same: the call gives the id of the draft, whose payload is kept for a later
\* push.
C16_OfflineSaveSucceeds ==
    [][\A c \in Slots :
          (calls[c].op = "saveDraft" /\ calls[c].uid # NoUser /\ Returns(c))
              => done'.ret # NoId]_vars

Blank(s) == \A i \in DOMAIN s : s[i] = " "
\* t is s without the blanks at its ends
Trimmed(s, t) ==
    \E i \in 1..Len(s) : \E j \in i..Len(s) :
        /\ t = SubSeq(s, i, j) /\ s[i] # " " /\ s[j] # " "
        /\ \A k \in 1..Len(s) : (k < i \/ k > j) => s[k] = " "

\* C17: a rename with an empty or blank name changes neither name nor updatedAt,
\* calls no rename and shows an error; a rename with another name calls
\* renameDraft with the name less the blanks at its ends, and when that call
\* succeeds the draft has this name and a later updatedAt.  Nothing else ever
\* changes a name.
C17_RenameValidated ==
    [][/\ \A d \in DOMAIN remote :
             handleSubmitRename(d) =>
                 IF Blank(renameUi.newDraftName)
                 THEN /\ draftName' = draftName /\ remote' = remote
                      /\ renameUi'.pc = "idle" /\ renameUi'.error = EmptyName
                 ELSE /\ draftName' = draftName /\ remote' = remote
                      /\ renameUi'.pc = "await" /\ renameUi'.id = d
                      /\ Trimmed(renameUi.newDraftName, renameUi'.name)
       /\ draftName' # draftName =>
             /\ renameUi.pc = "await" /\ ~ Blank(renameUi.name)
             /\ draftName' = [draftName EXCEPT ![renameUi.id] = renameUi.name]
             /\ remote'[renameUi.id].last_updated > remote[renameUi.id].last_updated]_vars
C17_Witness ==
    /\ renameUi.error = EmptyName /\ renameUi.newDraftName = <<" ">>
    /\ \E d \in DOMAIN remote : draftName[d] # <<>> /\ remote[d].last_updated > 0

\* C18: no call of the hook changes or removes a row of another user, no row
\* changes its user_id, and getDraft returns no row of another user.
C18_OwnerScoped ==
    [][/\ \A d \in DOMAIN remote :
             remote[d].user_id # user => (d \in DOMAIN remote' /\ remote'[d] = remote[d])
       /\ \A d \in DOMAIN remote \cap DOMAIN remote' : remote'[d].user_id = remote[d].user_id
       /\ \A c \in Slots :
             (calls[c].op = "getDraft" /\ Returns(c) /\ done'.row # <<>>)
                 => remote[calls[c].id].user_id = user]_vars

\* C19: no write lowers the last_updated of a row.
C19_UpdatedAtMonotonic ==
    [][\A d \in DOMAIN remote \cap DOMAIN remote' :
          remote'[d].last_updated >= remote[d].last_updated]_vars

Descending(l) == \A i \in 1..(Len(l) - 1) : l[i].last_updated >= l[i + 1].last_updated

\* C20: the list a load gets from the table holds each row of the current user
\* once, as it is in the table, and no other row, in descending order of
\* last_updated; that list becomes drafts; drafts is in descending order always.
C20_ListOwnedSorted ==
    /\ [](Descending(drafts))
    /\ [][\A c \in Slots :
             /\ (calls[c].pc = "loadSelect" /\ calls'[c].pc = "loadResponse" /\ calls'[c].ok) =>
                   LET l == calls'[c].snap IN
                   /\ Descending(l)
                   /\ ListedIds(l) = {d \in DOMAIN remote : remote[d].user_id = user}
                   /\ Len(l) = Cardinality(ListedIds(l))
                   /\ \A i \in DOMAIN l : l[i] = TournamentDraft(l[i].id)
             /\ (calls[c].pc = "loadResponse" /\ calls[c].ok /\ calls'[c].pc # "loadResponse")
                   => drafts' = calls[c].snap]_vars
C20_Witness ==
    /\ Len(drafts) = 2 /\ drafts[1].last_updated > drafts[2].last_updated
    /\ \E d \in DOMAIN remote : remote[d].user_id # user

\* the load inside call c ends in this step, and it failed
LoadFails(c) ==
    \/ calls[c].pc = "loadResponse" /\ ~ calls[c].ok /\ calls'[c].pc # "loadResponse"
    \/ calls[c].pc = "loadGetUser" /\ user = NoUser /\ calls'[c].pc # "loadGetUser"

\* C21: a load that fails leaves drafts as it was, puts the failure into error,
\* ends loading and returns to its caller without throwing (completeDraft and
\* deleteDraft, which await it, return true).
C21_LoadFailsClosed ==
    [][\A c \in Slots :
          LoadFails(c) =>
              /\ drafts' = drafts
              /\ error' \in {"Failed to load drafts", "User not authenticated"}
              /\ isLoading' = FALSE
              /\ Returns(c)
              /\ done'.op = calls[c].op
              /\ calls[c].op # "loadDrafts" => done'.ret = 1]_vars
C21_Witness ==
    /\ error = "Failed to load drafts" /\ drafts # <<>> /\ ~ isLoading
    /\ done.op = "loadDrafts"

\* C22: every load ends: whenever isLoading is true it is false again later,
\* whether or not the remote side answers.
C22_LoadCompletes == isLoading ~> ~ isLoading

\* C23: while there is no user, no call reads or writes the table: the table and
\* the audit trail stay as they are and every call that returns has failed.
C23_NoUserNoAccess ==
    [][user = NoUser =>
          /\ remote' = remote /\ audit' = audit /\ drafts' = drafts
          /\ \A c \in Slots : Returns(c) => (done'.ret = NoId /\ done'.row = <<>>)]_vars

\* the remote write of call c is accepted in this step
WriteAccepted(c) ==
    /\ calls[c].op \in {"saveDraft", "completeDraft", "deleteDraft"}
    /\ calls[c].pc \in {"update", "insert", "delete"}
    /\ calls'[c] # calls[c] /\ audit' # audit

ReturnsFailure(c) ==
    /\ calls[c].op \in {"saveDraft", "completeDraft", "deleteDraft"}
    /\ Returns(c) /\ done'.ret = NoId

\* C25: a save, completion or delete that fails fails at its first request and
\* leaves every row of the table, the drafts list and the audit trail as they
\* were.
C25_FailureChangesNothing ==
    [][\A c \in Slots :
          ReturnsFailure(c) =>
              /\ calls[c].pc \in {"getUser", "update", "insert", "delete"}
              /\ remote' = remote /\ drafts' = drafts /\ audit' = audit
              /\ nextId' = nextId]_vars
C25_Witness ==
    /\ done.op = "saveDraft" /\ done.ret = NoId
    /\ done.id \in DOMAIN remote /\ remote[done.id].data # done.data
    /\ remote[done.id].status = "completed"
    /\ \E i \in DOMAIN drafts : drafts[i].id = done.id

\* saveDraft in slot c returns an id in this step
SaveSucceeds(c) == calls[c].op = "saveDraft" /\ Returns(c) /\ done'.ret # NoId

\* C26: a saveDraft without id that succeeds adds one row, of the caller, with
\* the payload and status draft, under an id no row has, and returns that id; a
\* saveDraft with an id that succeeds changes data and last_updated of that row
\* only, adds no row and returns the id it was given.
C26_CreateOrUpdate ==
    [][\A c \in Slots :
          SaveSucceeds(c) =>
              LET k == calls[c]
                  r == done'.ret
              IN IF k.id = NoId
                 THEN /\ r \notin DOMAIN remote
                      /\ DOMAIN remote' = DOMAIN remote \cup {r}
                      /\ \A d \in DOMAIN remote : remote'[d] = remote[d]
                      /\ remote'[r].status = "draft" /\ remote'[r].data = k.data
                      /\ remote'[r].user_id = k.uid
                      /\ \A b \in Slots : calls[b].id # r
                 ELSE /\ r = k.id
                      /\ DOMAIN remote' = DOMAIN remote
                      /\ \A d \in DOMAIN remote \ {r} : remote'[d] = remote[d]
                      /\ remote'[r] = [remote[r] EXCEPT !.data = k.data,
                                                        !.last_updated = k.stamp]]_vars
C26_Witness ==
    /\ done.op = "saveDraft" /\ done.id = NoId /\ done.ret \in DOMAIN remote
    /\ remote[done.ret].data = done.data /\ remote[done.ret].status = "draft"
    /\ \E d \in DOMAIN remote : /\ audit[<<"tournament_draft_updated", d>>] = 1
                                 /\ remote[d].data # NoData /\ d # done.ret

\* C27: the answer to a load that was issued before the load whose answer drafts
\* holds never changes drafts.
C27_LaterLoadWins == [][shown' < shown => drafts' = drafts]_vars

\* call c sends its remote write in this step
WriteStep(c) ==
    /\ calls[c].op \in {"saveDraft", "completeDraft", "deleteDraft"}
    /\ calls[c].pc \in {"update", "insert", "delete"}
    /\ calls'[c] # calls[c]

\* the audit event of a write by call c that the table accepted
EventOf(c) ==
    LET k == calls[c] IN
    CASE k.pc = "insert"            -> <<"tournament_draft_created", nextId>>
      [] k.op = "saveDraft"         -> <<"tournament_draft_updated", k.id>>
      [] k.op = "completeDraft"     -> <<"tournament_draft_completed", k.id>>
      [] OTHER                      -> <<"tournament_draft_deleted", k.id>>

\* C28: a write adds exactly one audit event, of its kind and with the id of the
\* draft it wrote, when the table accepted it, and none when it failed; while
\* there is no user no audit event is added at all.
C28_OneEventPerWrite ==
    [][/\ user = NoUser => audit' = audit
       /\ \A c \in Slots : WriteStep(c) =>
             IF remote' # remote
             THEN audit' = [audit EXCEPT ![EventOf(c)] = @ + 1]
             ELSE audit' = audit]_vars

\* a delete click on draft d happens in this step
DeleteClick(d) == deleteLog'.clicks = deleteLog.clicks + 1 /\ deleteLog'.last = d

\* C29: onDelete is called for a draft only by a delete click on that draft while
\* it is the armed one, once per such click, and that click disarms; a click on
\* a draft that is not armed arms it and calls nothing.
C29_TwoClickDelete ==
    [][\A d \in DraftIds :
          /\ deleteLog'.invoked[d] # deleteLog.invoked[d] => (DeleteClick(d) /\ isDeleting = d)
          /\ DeleteClick(d) =>
                IF isDeleting = d
                THEN /\ deleteLog'.invoked = [deleteLog.invoked EXCEPT ![d] = @ + 1]
                     /\ deleteUi'.awaiting = Append(deleteUi.awaiting, d)
                     /\ isDeleting' = NoId
                ELSE /\ deleteLog'.invoked = deleteLog.invoked
                     /\ deleteUi'.awaiting = deleteUi.awaiting
                     /\ remote' = remote
                     /\ isDeleting' = d]_vars

\* draft 1 was armed and confirmed, and a click on draft 2 while it was not armed
\* has armed it
C29_Witness ==
    /\ deleteLog.invoked[1] = 1 /\ deleteLog.invoked[2] = 0
    /\ deleteLog.clicks = 3 /\ deleteLog.last = 2 /\ isDeleting = 2

\* C30: an armed draft stays armed until a delete click or until the 3 seconds
\* of the timer its own arming started have passed.
C30_OwnTimerDisarms ==
    [][(isDeleting # NoId /\ isDeleting' # isDeleting) =>
          \/ \E d \in DraftIds : DeleteClick(d)
          \/ \E t \in timers : t.arm = deleteLog.arming /\ t.left = 0]_vars

====
